---------------------------- MODULE Spec2Model ----------------------------
(***************************************************************************)
(* A model of generate_model.py: the command line entry point main, the    *)
(* straight-line pipeline generate_3d_model, and the cached background     *)
(* removal model (load_birefnet_model / remove_background).                *)
(*                                                                         *)
(* Every call into an external library is a step whose outcome is chosen   *)
(* nondeterministically: it returns, or it raises an Exception.  Strings   *)
(* are sequences of one-character strings (or of short tokens for fixed    *)
(* suffixes), paths are tuples of components.                              *)
(***************************************************************************)
EXTENDS Integers, Sequences, FiniteSets

VARIABLES
    argv,            \* the command line given to the process
    args,            \* the namespace returned by parser.parse_args()
    pc,              \* position of the process
    called,          \* generate_3d_model has been called
    result,          \* how generate_3d_model ended: none / True / False / raised
    exitCode,        \* exit status of the process, NotExited while it runs
    endedBy,         \* what ended the process
    log,             \* everything printed so far
    started,         \* the pipeline steps attempted so far, in order
    succeeded,       \* the pipeline steps that completed without raising
    dirs,            \* directories that exist
    files,           \* files that exist (complete or not)
    created,         \* directories created by this process
    written,         \* files completely written by this process
    clock,           \* days elapsed since the process started
    removal_path,    \* local of generate_3d_model
    mesh_path,       \* local of generate_3d_model
    birefnet_model,  \* the module global
    loads,           \* number of models from_pretrained has returned
    calls            \* library use: the calls made so far and how they ended

vars == <<argv, args, pc, called, result, exitCode, endedBy, log, started,
          succeeded, dirs, files, created, written, clock, removal_path,
          mesh_path, birefnet_model, loads, calls>>

---------------------------------------------------------------------------
(* Bounds *)

MaxLen == 2        \* longest label tried
MaxTicks == 1      \* midnights that may pass during one run
MaxCalls == 3      \* library calls made in one process

---------------------------------------------------------------------------
(* Strings and characters *)

None == 0          \* Python's None, for the module global birefnet_model
NotExited == -1    \* the process has no exit status yet

AlnumChars == {"a", "7"}              \* characters for which str.isalnum holds
Chars == AlnumChars \cup {"_", "."}   \* plus the underscore and one other character

RECURSIVE SeqsUpTo(_, _)
SeqsUpTo(S, n) ==
    IF n = 0 THEN {<<>>}
    ELSE LET shorter == SeqsUpTo(S, n - 1)
         IN  shorter \cup {Append(s, c) : s \in shorter, c \in S}

Labels == SeqsUpTo(Chars, MaxLen)

\* str.replace(old, ""): every occurrence of the character old is dropped
replace(s, old) == SelectSeq(s, LAMBDA c : c # old)

\* str.isalnum(): at least one character, and all of them alphanumeric
isalnum(s) == Len(s) > 0 /\ \A i \in 1..Len(s) : s[i] \in AlnumChars

\* variant: the label is not checked
ValidLabelAlways(label) == TRUE
\* the condition main tests: args.label.replace("_", "").isalnum()
ValidLabel(label) == isalnum(replace(label, "_"))

---------------------------------------------------------------------------
(* Dates and file names *)

\* the calendar day n days after the process started (it starts on 2026-12-31)
DateOf(n) == IF n = 0 THEN <<2026, 12, 31>> ELSE <<2027, 1, n>>

Digit(k) == <<"0", "1", "2", "3", "4", "5", "6", "7", "8", "9">>[k + 1]
Pad2(n) == <<Digit(n \div 10), Digit(n % 10)>>
Pad4(n) == Pad2(n \div 100) \o Pad2(n % 100)

\* datetime.strftime("%Y%m%d")
strftime(date) == Pad4(date[1]) \o Pad2(date[2]) \o Pad2(date[3])

RemovalFilename(timestamp, label) == timestamp \o <<"_">> \o label \o <<"_no_bg.png">>
\* variant: the underscore between date and label is missing
MeshFilenameNoSeparator(timestamp, label) == timestamp \o label \o <<".glb">>
MeshFilename(timestamp, label) == timestamp \o <<"_">> \o label \o <<".glb">>

RemovalDir(output_dir) == <<output_dir, "removal">>
MeshDir(output_dir) == <<output_dir, "mesh">>

\* Path(dir) / filename
PathJoin(dir, filename) == Append(dir, filename)

\* Path.mkdir(parents=True, exist_ok=True): the directory and its parent
MkdirParents(dir) == {<<dir[1]>>, dir}

NoPath == <<>>

---------------------------------------------------------------------------
(* Log lines: <<kind, text, path>> *)

Info(text) == <<"info", text, NoPath>>
InfoPath(text, path) == <<"info", text, path>>
Ok(text) == <<"ok", text, NoPath>>
Error(text) == <<"error", text, NoPath>>
Hint(text) == <<"hint", text, NoPath>>
Summary(text, path) == <<"summary", text, path>>

\* the line printed before a step is attempted
Announce(step, image_path, rpath, mpath) ==
    CASE step = "load_model" -> <<Info("Loading image-to-3D model...")>>
      [] step = "load_image" -> <<InfoPath("Loading image", <<image_path>>)>>
      [] step = "mkdir" -> <<>>
      [] step = "remove_background" -> <<Info("Removing background with BiRefNet...")>>
      [] step = "save_image" -> <<InfoPath("Saving image with no background", rpath)>>
      [] step = "generate_mesh" -> <<Info("Generating 3D mesh (this may take a few minutes)...")>>
      [] step = "export_mesh" -> <<InfoPath("Saving mesh", mpath)>>

\* the line printed when a step has succeeded
Done(step) ==
    CASE step = "load_model" -> <<Ok("Hunyuan3D model loaded")>>
      [] step = "load_image" -> <<Ok("Image loaded")>>
      [] step = "mkdir" -> <<>>
      [] step = "remove_background" -> <<Ok("Background removed")>>
      [] step = "save_image" -> <<Ok("Background-removed image saved")>>
      [] step = "generate_mesh" -> <<Ok("3D mesh generated")>>
      [] step = "export_mesh" -> <<Ok("Mesh saved")>>

\* variant: every except clause prints the line of the first one
ErrorMessagesSame(step) == <<Error("Error loading model")>>
\* what the except clause of a step prints
ErrorMessages(step) ==
    CASE step = "load_model" ->
            <<Error("Error loading model"),
              Hint("Make sure you have installed all required packages and the hy3dshape module is available")>>
      [] step = "load_image" -> <<Error("Error loading image")>>
      [] step = "remove_background" -> <<Error("Error removing background")>>
      [] step = "save_image" -> <<Error("Error saving image")>>
      [] step = "generate_mesh" -> <<Error("Error generating 3D mesh")>>
      [] step = "export_mesh" -> <<Error("Error saving mesh")>>
      [] OTHER -> <<>>

---------------------------------------------------------------------------
(* Control flow of generate_3d_model *)

\* variant: the mesh is generated before the image is saved
SuccessorMeshFirst(step) ==
    CASE step = "load_model" -> "load_image"
      [] step = "load_image" -> "mkdir"
      [] step = "mkdir" -> "remove_background"
      [] step = "remove_background" -> "generate_mesh"
      [] step = "generate_mesh" -> "save_image"
      [] step = "save_image" -> "export_mesh"
      [] step = "export_mesh" -> "summary"
\* variant: the directories are created before the image is loaded
SuccessorDirsFirst(step) ==
    CASE step = "load_model" -> "mkdir"
      [] step = "mkdir" -> "load_image"
      [] step = "load_image" -> "remove_background"
      [] step = "remove_background" -> "save_image"
      [] step = "save_image" -> "generate_mesh"
      [] step = "generate_mesh" -> "export_mesh"
      [] step = "export_mesh" -> "summary"
\* the statement reached when a step has completed
Successor(step) ==
    CASE step = "load_model" -> "load_image"
      [] step = "load_image" -> "mkdir"
      [] step = "mkdir" -> "remove_background"
      [] step = "remove_background" -> "save_image"
      [] step = "save_image" -> "generate_mesh"
      [] step = "generate_mesh" -> "export_mesh"
      [] step = "export_mesh" -> "summary"

\* the step stands inside a try whose except clause catches Exception
Guarded(step) == step # "mkdir"

\* variant: the result is ignored
ExitStatusZero(success) == 0
\* sys.exit(0 if success else 1)
ExitStatus(success) == IF success THEN 0 ELSE 1

\* a step has completed: go on with the next statement
Succeed(step) ==
    /\ started' = Append(started, step)
    /\ succeeded' = succeeded \cup {step}
    /\ log' = log \o Announce(step, args.image_path, removal_path, mesh_path) \o Done(step)
    /\ pc' = Successor(step)
    /\ result' = result

\* a step has raised: the except clause logs and returns False, and where
\* there is no try the exception leaves generate_3d_model
Fail(step) ==
    /\ started' = Append(started, step)
    /\ succeeded' = succeeded
    /\ IF Guarded(step)
       THEN /\ log' = log \o Announce(step, args.image_path, removal_path, mesh_path)
                          \o ErrorMessages(step)
            /\ result' = "False"
            /\ pc' = "returned"
       ELSE /\ log' = log \o Announce(step, args.image_path, removal_path, mesh_path)
            /\ result' = "raised"
            /\ pc' = "raised"

---------------------------------------------------------------------------
(* The cached background removal model *)

LoadOutcomes(model) ==
    IF model = None THEN {"ok", "raise_from_pretrained", "raise_to_device"}
    ELSE {"cached"}

\* load_birefnet_model(): the global after the call, whether the call raised,
\* what it returned, whether it tried to load, and what it printed.  fresh is
\* the object from_pretrained returns when it is called.
load_birefnet_model(model, fresh, outcome) ==
    IF model # None
    THEN [model |-> model, raised |-> FALSE, ret |-> model, attempted |-> FALSE,
          pretrained |-> FALSE, load_raised |-> FALSE, msgs |-> <<>>]
    ELSE CASE outcome = "raise_from_pretrained" ->
                [model |-> None, raised |-> TRUE, ret |-> None, attempted |-> TRUE,
                 pretrained |-> FALSE, load_raised |-> TRUE,
                 msgs |-> <<Info("Loading BiRefNet model for background removal...")>>]
           [] outcome = "raise_to_device" ->
                [model |-> fresh, raised |-> TRUE, ret |-> None, attempted |-> TRUE,
                 pretrained |-> TRUE, load_raised |-> TRUE,
                 msgs |-> <<Info("Loading BiRefNet model for background removal...")>>]
           [] OTHER ->
                [model |-> fresh, raised |-> FALSE, ret |-> fresh, attempted |-> TRUE,
                 pretrained |-> TRUE, load_raised |-> FALSE,
                 msgs |-> <<Info("Loading BiRefNet model for background removal..."),
                            Ok("BiRefNet model loaded")>>]

\* remove_background(image): load_birefnet_model(), then the inference
remove_background(model, fresh, outcome, inference) ==
    LET l == load_birefnet_model(model, fresh, outcome)
    IN  [l EXCEPT !.raised = l.raised \/ inference = "raise",
                  !.ret = IF l.raised \/ inference = "raise" THEN None ELSE l.ret]

---------------------------------------------------------------------------
(* The process: python generate_model.py ... *)

NoArgs == [image_path |-> "", label |-> <<>>, output_dir |-> ""]
NoOption == ""     \* --output-dir is not on the command line

ImagePaths == {"cake.jpg", "https://example.com/image.jpg"}

Argvs ==
    {[kind |-> "ok", image_path |-> p, label |-> l, output_dir |-> d] :
        p \in ImagePaths, l \in Labels, d \in {NoOption, "renders"}}
    \cup {[kind |-> k, image_path |-> "", label |-> <<>>, output_dir |-> NoOption] :
            k \in {"usage", "help"}}

\* the directories a previous run has left behind
OldDirs == {<<"outputs">>, <<"outputs", "removal">>, <<"outputs", "mesh">>}

Fresh(position) ==
    /\ pc = position
    /\ args = NoArgs
    /\ called = FALSE
    /\ result = "none"
    /\ exitCode = NotExited
    /\ endedBy = "none"
    /\ log = <<>>
    /\ started = <<>>
    /\ succeeded = {}
    /\ files = {}
    /\ created = {}
    /\ written = {}
    /\ clock = 0
    /\ removal_path = NoPath
    /\ mesh_path = NoPath
    /\ birefnet_model = None
    /\ loads = 0
    /\ calls = <<>>

Init ==
    /\ argv \in Argvs
    /\ dirs \in {{}, OldDirs}
    /\ Fresh("parse_args")

Exit(status, by) ==
    /\ pc' = "exited"
    /\ exitCode' = status
    /\ endedBy' = by

\* parser.parse_args(): argparse ends the process itself on a command line it
\* rejects (status 2) and on --help (status 0)
ParseArgs ==
    /\ pc = "parse_args"
    /\ \/ /\ argv.kind = "usage"
          /\ Exit(2, "argparse")
          /\ log' = Append(log, Error("usage"))
          /\ args' = args
       \/ /\ argv.kind = "help"
          /\ Exit(0, "argparse")
          /\ log' = Append(log, Info("help"))
          /\ args' = args
       \/ /\ argv.kind = "ok"
          /\ args' = [image_path |-> argv.image_path,
                      label |-> argv.label,
                      output_dir |-> IF argv.output_dir = NoOption THEN "outputs"
                                     ELSE argv.output_dir]
          /\ pc' = "validate"
          /\ UNCHANGED <<exitCode, endedBy, log>>
    /\ UNCHANGED <<argv, called, result, started, succeeded, dirs, files, created,
                   written, clock, removal_path, mesh_path, birefnet_model, loads, calls>>

\* the label check of main, and the call of generate_3d_model
ValidateLabel ==
    /\ pc = "validate"
    /\ IF ~ValidLabel(args.label)
       THEN /\ log' = Append(log, Error("Label must contain only letters, numbers, and underscores"))
            /\ Exit(1, "sys.exit")
            /\ called' = called
       ELSE /\ called' = TRUE
            /\ pc' = "load_model"
            /\ UNCHANGED <<exitCode, endedBy, log>>
    /\ UNCHANGED <<argv, args, result, started, succeeded, dirs, files, created,
                   written, clock, removal_path, mesh_path, birefnet_model, loads, calls>>

\* Hunyuan3DDiTFlowMatchingPipeline.from_pretrained(...)
LoadModel ==
    /\ pc = "load_model"
    /\ \/ Succeed("load_model")
       \/ Fail("load_model")
    /\ UNCHANGED <<argv, args, called, exitCode, endedBy, dirs, files, created,
                   written, clock, removal_path, mesh_path, birefnet_model, loads, calls>>

\* load_image(image_path): from the URL or the file, then exif_transpose and convert
LoadImage ==
    /\ pc = "load_image"
    /\ \/ Succeed("load_image")
       \/ Fail("load_image")
    /\ UNCHANGED <<argv, args, called, exitCode, endedBy, dirs, files, created,
                   written, clock, removal_path, mesh_path, birefnet_model, loads, calls>>

\* the two mkdir calls, then the file names from datetime.now()
MkDirs ==
    /\ pc = "mkdir"
    /\ LET rdir == RemovalDir(args.output_dir)
           mdir == MeshDir(args.output_dir)
           timestamp == strftime(DateOf(clock))
       IN  \/ /\ Succeed("mkdir")
              /\ dirs' = dirs \cup MkdirParents(rdir) \cup MkdirParents(mdir)
              /\ created' = created \cup ((MkdirParents(rdir) \cup MkdirParents(mdir)) \ dirs)
              /\ removal_path' = PathJoin(rdir, RemovalFilename(timestamp, args.label))
              /\ mesh_path' = PathJoin(mdir, MeshFilename(timestamp, args.label))
           \/ /\ Fail("mkdir")
              /\ UNCHANGED <<dirs, created, removal_path, mesh_path>>
           \/ /\ Fail("mkdir")
              /\ dirs' = dirs \cup MkdirParents(rdir)
              /\ created' = created \cup (MkdirParents(rdir) \ dirs)
              /\ UNCHANGED <<removal_path, mesh_path>>
    /\ UNCHANGED <<argv, args, called, exitCode, endedBy, files, written, clock,
                   birefnet_model, loads, calls>>

\* input_image = remove_background(input_image)
RemoveBackground ==
    /\ pc = "remove_background"
    /\ \E outcome \in LoadOutcomes(birefnet_model), inference \in {"ok", "raise"} :
         LET r == remove_background(birefnet_model, loads + 1, outcome, inference)
         IN  /\ birefnet_model' = r.model
             /\ loads' = IF r.pretrained THEN loads + 1 ELSE loads
             /\ IF r.raised THEN Fail("remove_background")
                ELSE Succeed("remove_background")
    /\ UNCHANGED <<argv, args, called, exitCode, endedBy, dirs, files, created,
                   written, clock, removal_path, mesh_path, calls>>

\* input_image.save(removal_path); a save that raises may leave a file behind
SaveImage ==
    /\ pc = "save_image"
    /\ \/ /\ Succeed("save_image")
          /\ files' = files \cup {removal_path}
          /\ written' = written \cup {removal_path}
       \/ /\ Fail("save_image")
          /\ files' \in {files, files \cup {removal_path}}
          /\ written' = written
    /\ UNCHANGED <<argv, args, called, exitCode, endedBy, dirs, created, clock,
                   removal_path, mesh_path, birefnet_model, loads, calls>>

\* mesh = pipeline_shapegen(image=input_image)[0]
GenerateMesh ==
    /\ pc = "generate_mesh"
    /\ \/ Succeed("generate_mesh")
       \/ Fail("generate_mesh")
    /\ UNCHANGED <<argv, args, called, exitCode, endedBy, dirs, files, created,
                   written, clock, removal_path, mesh_path, birefnet_model, loads, calls>>

\* mesh.export(str(mesh_path)); an export that raises may leave a file behind
ExportMesh ==
    /\ pc = "export_mesh"
    /\ \/ /\ Succeed("export_mesh")
          /\ files' = files \cup {mesh_path}
          /\ written' = written \cup {mesh_path}
       \/ /\ Fail("export_mesh")
          /\ files' \in {files, files \cup {mesh_path}}
          /\ written' = written
    /\ UNCHANGED <<argv, args, called, exitCode, endedBy, dirs, created, clock,
                   removal_path, mesh_path, birefnet_model, loads, calls>>

\* the success summary and return True
ReturnTrue ==
    /\ pc = "summary"
    /\ log' = log \o <<Ok("Success!"),
                       Summary("Background-removed image", removal_path),
                       Summary("3D mesh", mesh_path)>>
    /\ result' = "True"
    /\ pc' = "returned"
    /\ UNCHANGED <<argv, args, called, exitCode, endedBy, started, succeeded, dirs,
                   files, created, written, clock, removal_path, mesh_path,
                   birefnet_model, loads, calls>>

\* sys.exit(0 if success else 1)
SysExit ==
    /\ pc = "returned"
    /\ Exit(ExitStatus(result = "True"), "sys.exit")
    /\ UNCHANGED <<argv, args, called, result, log, started, succeeded, dirs, files,
                   created, written, clock, removal_path, mesh_path, birefnet_model,
                   loads, calls>>

\* an exception nothing catches leaves main: the interpreter prints the
\* traceback and the process ends with status 1
Uncaught ==
    /\ pc = "raised"
    /\ Exit(1, "uncaught")
    /\ log' = Append(log, Error("Traceback"))
    /\ UNCHANGED <<argv, args, called, result, started, succeeded, dirs, files,
                   created, written, clock, removal_path, mesh_path, birefnet_model,
                   loads, calls>>

\* midnight passes while the process runs: datetime.now() moves to the next day
Tick ==
    /\ pc \notin {"exited", "lib"}
    /\ clock < MaxTicks
    /\ clock' = clock + 1
    /\ UNCHANGED <<argv, args, pc, called, result, exitCode, endedBy, log, started,
                   succeeded, dirs, files, created, written, removal_path, mesh_path,
                   birefnet_model, loads, calls>>

Next ==
    \/ ParseArgs
    \/ ValidateLabel
    \/ LoadModel
    \/ LoadImage
    \/ MkDirs
    \/ RemoveBackground
    \/ SaveImage
    \/ GenerateMesh
    \/ ExportMesh
    \/ ReturnTrue
    \/ SysExit
    \/ Uncaught
    \/ Tick

Spec == Init /\ [][Next]_vars

---------------------------------------------------------------------------
(* The module used as a library: load_birefnet_model and remove_background *)
(* called in any order in one process                                      *)

InitCache ==
    /\ argv = [kind |-> "lib", image_path |-> "", label |-> <<>>, output_dir |-> NoOption]
    /\ dirs = {}
    /\ Fresh("lib")

Call(fn, before, r) ==
    [fn |-> fn, before |-> before, after |-> r.model, raised |-> r.raised,
     ret |-> r.ret, attempted |-> r.attempted, pretrained |-> r.pretrained,
     load_raised |-> r.load_raised]

CallLoadBirefnetModel ==
    /\ pc = "lib"
    /\ Len(calls) < MaxCalls
    /\ \E outcome \in LoadOutcomes(birefnet_model) :
         LET r == load_birefnet_model(birefnet_model, loads + 1, outcome)
         IN  /\ birefnet_model' = r.model
             /\ loads' = IF r.pretrained THEN loads + 1 ELSE loads
             /\ log' = log \o r.msgs
             /\ calls' = Append(calls, Call("load_birefnet_model", birefnet_model, r))
    /\ UNCHANGED <<argv, args, pc, called, result, exitCode, endedBy, started,
                   succeeded, dirs, files, created, written, clock, removal_path,
                   mesh_path>>

CallRemoveBackground ==
    /\ pc = "lib"
    /\ Len(calls) < MaxCalls
    /\ \E outcome \in LoadOutcomes(birefnet_model), inference \in {"ok", "raise"} :
         LET r == remove_background(birefnet_model, loads + 1, outcome, inference)
         IN  /\ birefnet_model' = r.model
             /\ loads' = IF r.pretrained THEN loads + 1 ELSE loads
             /\ log' = log \o r.msgs
             /\ calls' = Append(calls, Call("remove_background", birefnet_model, r))
    /\ UNCHANGED <<argv, args, pc, called, result, exitCode, endedBy, started,
                   succeeded, dirs, files, created, written, clock, removal_path,
                   mesh_path>>

NextCache ==
    \/ CallLoadBirefnetModel
    \/ CallRemoveBackground

SpecCache == InitCache /\ [][NextCache]_vars

---------------------------------------------------------------------------
(* Properties *)

\* the steps generate_3d_model wraps in a try of their own
PipelineSteps ==
    {"load_model", "load_image", "remove_background", "save_image",
     "generate_mesh", "export_mesh"}

\* the order the steps are expected in
ClaimedOrder ==
    <<"load_model", "load_image", "mkdir", "remove_background", "save_image",
      "generate_mesh", "export_mesh">>

\* the error line expected of each step
ClaimedError ==
    [load_model |-> "Error loading model",
     load_image |-> "Error loading image",
     remove_background |-> "Error removing background",
     save_image |-> "Error saving image",
     generate_mesh |-> "Error generating 3D mesh",
     export_mesh |-> "Error saving mesh"]

StartedSet == {started[i] : i \in 1..Len(started)}
FailedSteps == StartedSet \ succeeded
ErrorLines == SelectSeq(log, LAMBDA m : m[1] = "error")
SummaryLines == SelectSeq(log, LAMBDA m : m[1] = "summary")
Parsed == argv.kind = "ok" /\ pc \notin {"parse_args", "validate"}
OnlyAllowedChars == \A i \in 1..Len(args.label) : args.label[i] \in AlnumChars \cup {"_"}

\* C1 as stated: every run of main ends through sys.exit with status 0 or 1,
\* status 0 exactly when all six pipeline steps succeeded, status 1 when the
\* label is invalid or a step failed; no run ends any other way.
C1Original ==
    pc = "exited" =>
        /\ exitCode \in {0, 1}
        /\ endedBy = "sys.exit"
        /\ exitCode = 0 <=> PipelineSteps \subseteq succeeded
        /\ (~called \/ FailedSteps # {}) => exitCode = 1

\* C1 amended: a run whose command line argparse accepts ends with status 0
\* exactly when all six pipeline steps succeeded and with status 1 otherwise
\* (label rejected, or a step failed); it ends through sys.exit, except that a
\* failure of the directory creation ends it through an uncaught exception.
\* A command line argparse rejects ends in parse_args with status 2, --help
\* with status 0, both before the label is looked at.
C1ExitCodes ==
    pc = "exited" =>
        /\ argv.kind = "usage" => exitCode = 2 /\ endedBy = "argparse" /\ ~called
        /\ argv.kind = "help" => exitCode = 0 /\ endedBy = "argparse" /\ ~called
        /\ argv.kind = "ok" =>
             /\ exitCode \in {0, 1}
             /\ exitCode = 0 <=> PipelineSteps \subseteq succeeded
             /\ (~called \/ FailedSteps # {}) => exitCode = 1
             /\ endedBy = IF "mkdir" \in FailedSteps THEN "uncaught" ELSE "sys.exit"

C1Witness ==
    /\ pc = "exited"
    /\ argv.kind = "ok"
    /\ exitCode = 0
    /\ endedBy = "sys.exit"
    /\ PipelineSteps \subseteq succeeded

\* C2 as stated: a label is passed on to generate_3d_model if and only if each
\* of its characters is alphanumeric or an underscore (a label of underscores
\* alone included), and every other label ends the run with status 1.  Stated
\* for the labels that have at least one character.
C2LabelAccepted ==
    (Parsed /\ Len(args.label) > 0) =>
        /\ called <=> OnlyAllowedChars
        /\ ~OnlyAllowedChars => pc = "exited" /\ exitCode = 1

\* C3 as stated: whichever operation of generate_3d_model fails, directory
\* creation included, an error is logged and False is returned; no exception
\* leaves generate_3d_model.
C3EveryStepGuarded ==
    called =>
        /\ result # "raised"
        /\ FailedSteps # {} => result = "False" /\ Len(ErrorLines) > 0

\* C4: when generate_3d_model has returned True, this run has written
\* <base>/removal/<date>_<label>_no_bg.png and <base>/mesh/<date>_<label>.glb
\* with one date of the run, in YYYYMMDD form, and the one label in both names;
\* base is 'outputs' when --output-dir is not given.
C4OutputFiles ==
    result = "True" =>
        LET base == IF argv.output_dir = NoOption THEN "outputs" ELSE argv.output_dir
        IN  \E n \in 0..clock :
                LET date == strftime(DateOf(n))
                IN  /\ <<base, "removal", date \o <<"_">> \o argv.label \o <<"_no_bg.png">>>>
                         \in written
                    /\ <<base, "mesh", date \o <<"_">> \o argv.label \o <<".glb">>>>
                         \in written

C4Witness ==
    /\ result = "True"
    /\ argv.output_dir = NoOption
    /\ clock > 0
    /\ Cardinality(written) = 2

\* C5: the steps are attempted in the fixed order load model, load image,
\* create directories, remove background, save image, generate mesh, export
\* mesh, and a step is attempted only when every earlier one has succeeded.
C5FixedOrder ==
    /\ Len(started) <= Len(ClaimedOrder)
    /\ \A i \in 1..Len(started) :
         /\ started[i] = ClaimedOrder[i]
         /\ \A j \in 1..(i - 1) : ClaimedOrder[j] \in succeeded
    /\ "export_mesh" \in StartedSet => "save_image" \in succeeded
    /\ "load_image" \in StartedSet => "load_model" \in succeeded

C5Witness == "export_mesh" \in StartedSet /\ Len(started) = 7

\* C6: a run whose label main rejects never calls generate_3d_model: no step
\* is attempted, no model is loaded, no directory is created, no file is
\* written, and the process ends with status 1.
C6ValidationFirst ==
    (Parsed /\ ~isalnum(replace(args.label, "_"))) =>
        /\ ~called
        /\ started = <<>>
        /\ loads = 0 /\ birefnet_model = None
        /\ created = {} /\ dirs \in {{}, OldDirs}
        /\ written = {} /\ files = {}
        /\ pc = "exited" /\ exitCode = 1 /\ endedBy = "sys.exit"

C6Witness ==
    /\ pc = "exited"
    /\ argv.kind = "ok"
    /\ \E i \in 1..Len(args.label) : args.label[i] = "."
    /\ exitCode = 1

\* C7 as stated: each step is attempted at most once, and the first step that
\* fails ends the run at once with result False: it is the last step attempted.
C7NoRetries ==
    /\ \A i, j \in 1..Len(started) : started[i] = started[j] => i = j
    /\ \A i \in 1..Len(started) :
         started[i] \notin succeeded => i = Len(started) /\ result = "False"

\* C8: a run that has returned False has logged exactly one error line, that
\* of the step that failed, and no success summary; a run that has returned
\* True has logged no error line, and the summary naming both output paths.
C8ExactLogging ==
    /\ result = "False" =>
         /\ Len(ErrorLines) = 1
         /\ \E step \in FailedSteps :
              /\ step = started[Len(started)]
              /\ ErrorLines[1][2] = ClaimedError[step]
         /\ SummaryLines = <<>>
    /\ result = "True" =>
         /\ ErrorLines = <<>>
         /\ Len(SummaryLines) = 2
         /\ SummaryLines[1][3] = removal_path /\ removal_path \in written
         /\ SummaryLines[2][3] = mesh_path /\ mesh_path \in written

C8Witness ==
    /\ result = "False"
    /\ "generate_mesh" \in FailedSteps
    /\ pc = "exited"

\* C9: a run that fails at the model load or the image load has created no
\* directory and written no file; a run that fails at the mesh generation or
\* the mesh export keeps the background-removed image it has saved.
C9FailureEffects ==
    /\ (result = "False" /\ FailedSteps \cap {"load_model", "load_image"} # {}) =>
         /\ created = {} /\ dirs \in {{}, OldDirs}
         /\ written = {} /\ files = {}
    /\ (result = "False" /\ FailedSteps \cap {"generate_mesh", "export_mesh"} # {}
          /\ "save_image" \in succeeded) =>
         /\ removal_path \in files
         /\ removal_path \in written

C9Witness ==
    /\ result = "False"
    /\ "export_mesh" \in FailedSteps
    /\ removal_path \in files
    /\ pc = "exited"

\* C10 as stated: once a load has succeeded from_pretrained is not called
\* again and every later call returns that model; a load attempt that fails
\* leaves the global None, so that the next call attempts the load again.
C10CacheOrNone ==
    \A i \in 1..Len(calls) :
        /\ calls[i].load_raised => calls[i].after = None
        /\ calls[i].before = None => calls[i].attempted
        /\ (calls[i].attempted /\ ~calls[i].load_raised) =>
             \A j \in (i + 1)..Len(calls) :
                 /\ ~calls[j].pretrained
                 /\ calls[j].after = calls[i].after
                 /\ ~calls[j].raised => calls[j].ret = calls[i].ret

===========================================================================
